---- MODULE Spec2Model ----
(***************************************************************************)
(* ShadowCastX-Touch: the scrcpy/sndcpy orchestration layer of script.py.  *)
(*                                                                         *)
(* ScrcpyController runs on the Qt event loop.  Its handlers (start, stop, *)
(* _find_window, _drain_process_output) are sequential; the only places    *)
(* where a handler lets the background threads run for a long time are the *)
(* two bounded waits for a terminated process (proc.wait(timeout=2) in     *)
(* stop and in _stop_sndcpy), so a handler is one action up to such a wait *)
(* and one action from it.  The background threads (the scrcpy stderr      *)
(* reader, the sndcpy stdout reader and the sndcpy exit monitor) take one  *)
(* step per access to shared state.  The external processes print lines   *)
(* and exit on their own.                                                  *)
(***************************************************************************)
EXTENDS Integers, Sequences, FiniteSets, TLC

(* ---------------------------------------------------------------- bounds *)
\* Process slots of each kind the model has.
MaxMirror == 2
MaxSidecar == 2
\* Processes of each kind that can be alive, or still referenced, at a time
\* in a run of Spec: a spawn beyond it fails.
SpecMirrors == 1
SpecSidecars == 1
\* The same for a run of SpecAudio.
AudioMirrors == 1
AudioSidecars == 2
\* The same for a run of SpecView.
ViewMirrors == 1
ViewSidecars == 0
\* The same for a run of SpecRestart.
RestartMirrors == 2
RestartSidecars == 0
\* The same for a run of SpecFit, and the largest side of a widget and of a
\* device resolution there.
FitMirrors == 0
FitSidecars == 0
MaxSide == 6
MaxPixels == 3
\* The same for a run of SpecLines.
LinesMirrors == 2
LinesSidecars == 0
\* The same for a run of SpecLaunch.
LaunchMirrors == 1
LaunchSidecars == 0
\* Lines a process can leave unread in its output pipe as it exits.
PipeCap == 1
\* Lines the stderr queue holds before the model's reader thread waits.
MaxQueue == 1

\* Python's None for a process handle or a window handle.
NoProc == 0

Mirrors == 1..MaxMirror
Sidecars == 1..MaxSidecar
ExitCodes == {0, 1}

(* ------------------------------------------------------- lines of output *)
\* A line of output is the sequence of its words.
Contains(line, pat) ==
    \E i \in 0..(Len(line) - Len(pat)) :
        \A j \in 1..Len(pat) : line[i + j] = pat[j]

LowerWord(word) ==
    CASE word = "Press" -> "press"
      [] word = "PRESS" -> "press"
      [] word = "Enter" -> "enter"
      [] word = "ENTER" -> "enter"
      [] word = "To" -> "to"
      [] word = "Stop" -> "stop"
      [] word = "Quit" -> "quit"
      [] word = "Continue" -> "continue"
      [] OTHER -> word

\* str.lower()
lower(line) == [i \in 1..Len(line) |-> LowerWord(line[i])]

StopWords == {"stop", "quit", "exit", "close", "end", "terminate", "finish"}

\* A pattern that knows "stop" alone of the stop family.
StopWordOnly(text) ==
    \E i \in 0..(Len(text) - 4) :
        /\ text[i + 1] = "press"
        /\ text[i + 2] = "enter"
        /\ text[i + 3] = "to"
        /\ text[i + 4] = "stop"

\* SNDCPY_STOP_PROMPT_PATTERN.search(lower)
SNDCPY_STOP_PROMPT_PATTERN(text) ==
    \E i \in 0..(Len(text) - 4) :
        /\ text[i + 1] = "press"
        /\ text[i + 2] = "enter"
        /\ text[i + 3] = "to"
        /\ text[i + 4] \in StopWords

LineContinue == <<"Press", "Enter", "to", "continue">>
LineStop == <<"Press", "Enter", "to", "stop", "recording">>
LineQuit == <<"press", "ENTER", "to", "Quit">>
LinePlaying == <<"Playing", "audio">>
\* What sndcpy can print.
SndcpyLines == {LineContinue, LineStop, LineQuit, LinePlaying}

LineFoo == <<"INFO:", "foo">>
LineAudioRecord == <<"ERROR:", "Cannot", "create", "AudioRecord">>
LineDisabled ==
    <<"WARN:", "Audio", "stream", "explicitly", "disabled", "by", "the", "device">>
\* What scrcpy can print on stderr.
ScrcpyLines == {LineFoo, LineAudioRecord, LineDisabled}

\* The test of _read_sndcpy_output on one line: does it call _send_sndcpy_enter?
AcknowledgesPrompt(line) ==
    /\ Contains(lower(line), <<"press", "enter">>)
    /\ ~SNDCPY_STOP_PROMPT_PATTERN(lower(line))

\* The test of _handle_scrcpy_log_line on one line.
AudioUnsupportedLine(line) ==
    \/ Contains(line, <<"Cannot", "create", "AudioRecord">>)
    \/ Contains(line, <<"stream", "explicitly", "disabled", "by", "the", "device">>)

(* --------------------------------------------------------- launch options *)
\* A bitrate is the sequence of its characters.
IsSpace(ch) == ch \in {" ", "\t"}

RECURSIVE LStrip(_)
LStrip(s) == IF s # <<>> /\ IsSpace(Head(s)) THEN LStrip(Tail(s)) ELSE s

RECURSIVE RStrip(_)
RStrip(s) ==
    IF s # <<>> /\ IsSpace(s[Len(s)]) THEN RStrip(SubSeq(s, 1, Len(s) - 1)) ELSE s

\* str.strip()
strip(s) == RStrip(LStrip(s))

\* A validation that forgets the bitrate.
FpsOnlyValid(max_fps, bitrate) == ~(max_fps <= 0)

\* ScrcpyLaunchOptions.__post_init__: TRUE when it raises no ValueError.
ScrcpyLaunchOptionsValid(max_fps, bitrate) ==
    /\ ~(max_fps <= 0)
    /\ strip(bitrate) # <<>>

DEFAULT_BITRATE == <<"1", "6", "M">>
\* The (fps, bitrate) pairs start() is called with.
OptionCases ==
    { <<60, DEFAULT_BITRATE>>, <<0, DEFAULT_BITRATE>>, <<-1, DEFAULT_BITRATE>>,
      <<60, <<" ", "\t">> >> }

\* One argument of the scrcpy command line: a flag, with the number or the
\* text that follows its "=", or a bare text.
Arg(flag, num, text) == [flag |-> flag, num |-> num, text |-> text]

SCRCPY_TITLE == <<"ShadowCastX-Touch Android">>

\* Arguments that leave out --no-audio.
arguments_without_no_audio(max_fps, bitrate, stay_awake, audio) ==
    << Arg("--window-title", 0, SCRCPY_TITLE),
       Arg("--window-borderless", 0, <<>>),
       Arg("--max-fps", max_fps, <<>>),
       Arg("--video-bit-rate", 0, bitrate) >>
    \o (IF stay_awake THEN <<Arg("--stay-awake", 0, <<>>)>> ELSE <<>>)

\* ScrcpyLaunchOptions.to_arguments
to_arguments(max_fps, bitrate, stay_awake, audio) ==
    << Arg("--window-title", 0, SCRCPY_TITLE),
       Arg("--window-borderless", 0, <<>>),
       Arg("--max-fps", max_fps, <<>>),
       Arg("--video-bit-rate", 0, bitrate) >>
    \o (IF stay_awake THEN <<Arg("--stay-awake", 0, <<>>)>> ELSE <<>>)
    \o (IF ~audio THEN <<Arg("--no-audio", 0, <<>>)>> ELSE <<>>)

\* Python's None for the device serial, and the serials of the devices.
NoSerial == ""
Devices == {"R5CT60SV0RX"}

\* start(), lines 336-340: the command line, the options always with audio off.
scrcpy_args(serial, max_fps, bitrate, stay_awake) ==
    <<Arg("exe", 0, <<>>)>>
    \o (IF serial # NoSerial
        THEN <<Arg("-s", 0, <<>>), Arg("", 0, <<serial>>)>>
        ELSE <<>>)
    \o to_arguments(max_fps, bitrate, stay_awake, FALSE)

\* The options to_arguments is called on.
LaunchCases ==
    {60, 240} \X {DEFAULT_BITRATE, <<"8", "M">>} \X BOOLEAN \X BOOLEAN

NoResolution == <<>>
\* What `adb shell wm size` can answer.
Resolutions == {<<1080, 2400>>}

(* ----------------------------------------------------------------- state *)
VARIABLES
    self,            \* the ScrcpyController's fields
    mirror,          \* the scrcpy processes, by slot
    stderr_thread,   \* the "scrcpy-stderr" reader thread of each scrcpy process
    sidecar,         \* the sndcpy processes, by slot
    sndcpy_reader,   \* the "sndcpy-stdout" reader thread of each sndcpy process
    sndcpy_monitor,  \* the "sndcpy-monitor" thread of each sndcpy process
    pc,              \* where the event loop is: "idle" between handlers
    frame,           \* the locals of the handler that is blocked in a wait
    emitted,         \* the signals emitted by the handler running or just returned
    audio_events,    \* audio_unavailable signals emitted since start() last reset the warning
    view,            \* the AndroidView: its fit timer and the size of the widget
    lastOp           \* the step taken last

vars ==
    <<self, mirror, stderr_thread, sidecar, sndcpy_reader, sndcpy_monitor,
      pc, frame, emitted, audio_events, view, lastOp>>

\* ScrcpyController.__init__.  stderr_queue holds, for each queued line, the
\* slot of the process that printed it; the text of a line is drawn when the
\* line is handled, nothing reads it before.
ControllerInit ==
    [ serial |-> NoSerial,
      proc |-> NoProc, hwnd |-> NoProc, resolution |-> NoResolution,
      poll |-> FALSE, stderr_timer |-> FALSE, stderr_queue |-> <<>>,
      audio_requested |-> FALSE, audio_warning_emitted |-> FALSE,
      stopping |-> FALSE, sndcpy_proc |-> NoProc, sndcpy_prompt_ack |-> FALSE ]

\* A slot no process uses.  code: the exit code, kept while the controller
\* can still poll it.  pending: the lines an exited process left unread in
\* its pipe.  embedded: AndroidView._embed has made the window a child
\* window, which FindWindow does not find.  terminated: stop() has called
\* terminate() on the process the controller holds.  closed: the controller has closed
\* the process's streams.  written: a newline was written to the stdin of the
\* process, the controller's sidecar.
NoMirror ==
    [ st |-> "free", code |-> 0, embedded |-> FALSE, pending |-> 0,
      terminated |-> FALSE ]
NoSidecar == [st |-> "free", closed |-> FALSE, written |-> FALSE]
NoThread == [pc |-> "off", line |-> <<>>]

NoFrame ==
    [ op |-> "none", cont |-> "none", p |-> NoProc, unexpected |-> FALSE,
      was_idle |-> FALSE, was_streaming |-> FALSE, exe |-> TRUE, fps |-> 0,
      bitrate |-> <<>>, audio |-> FALSE, lines |-> <<>>, audio_was |-> FALSE,
      stay_awake |-> TRUE, args |-> <<>> ]

\* The record of a step: a handler's (op, result, path and what it was called
\* with) or a background step's (op, the sidecar slots and the line it is about).
NoOp ==
    [ op |-> "init", result |-> "returned", path |-> "", was_idle |-> FALSE,
      was_streaming |-> FALSE, exe |-> TRUE, fps |-> 0, bitrate |-> <<>>, audio |-> FALSE,
      lines |-> <<>>, audio_was |-> FALSE, unexpected |-> FALSE,
      sid |-> NoProc, to |-> NoProc, line |-> <<>>, again |-> FALSE,
      geom |-> <<>>, stay_awake |-> TRUE, args |-> <<>>,
      res |-> <<>>, rect |-> <<>> ]

Op(f, result, path) ==
    [ NoOp EXCEPT !.op = f.op, !.result = result, !.path = path,
                  !.was_idle = f.was_idle, !.was_streaming = f.was_streaming,
                  !.exe = f.exe, !.fps = f.fps,
                  !.bitrate = f.bitrate, !.audio = f.audio,
                  !.lines = f.lines, !.audio_was = f.audio_was,
                  !.unexpected = f.unexpected,
                  !.stay_awake = f.stay_awake, !.args = f.args ]

\* AndroidView.__init__: r_timer is started, and nothing ever stops it.  rect
\* is the size of the widget, (width, height).
ViewInit == [r_timer |-> TRUE, rect |-> <<800, 800>>]
\* The sizes the widget is given.
Viewports == {<<800, 800>>, <<800, 200>>, <<0, 0>>}

\* The state after construction, in a run that has the first `mirrors` and
\* `sidecars` slots.
InitWith(mirrors, sidecars) ==
    /\ self = ControllerInit
    /\ mirror = [m \in Mirrors |->
                    IF m <= mirrors THEN NoMirror ELSE [NoMirror EXCEPT !.st = "absent"]]
    /\ stderr_thread = [m \in Mirrors |-> "off"]
    /\ sidecar = [s \in Sidecars |->
                     IF s <= sidecars THEN NoSidecar
                     ELSE [NoSidecar EXCEPT !.st = "absent"]]
    /\ sndcpy_reader = [s \in Sidecars |-> NoThread]
    /\ sndcpy_monitor = [s \in Sidecars |-> "off"]
    /\ pc = "idle"
    /\ frame = NoFrame
    /\ emitted = <<>>
    /\ audio_events = 0
    /\ view = ViewInit
    /\ lastOp = NoOp

(* ------------------------------------------------- the state as one value *)
\* What a handler works on; a handler's code is a function from W to W.
W ==
    [ self |-> self, mirror |-> mirror, stderr_thread |-> stderr_thread,
      sidecar |-> sidecar, sndcpy_reader |-> sndcpy_reader,
      sndcpy_monitor |-> sndcpy_monitor, emitted |-> emitted,
      audio_events |-> audio_events ]

\* SessionState = Idle: no handles, no sidecar, no poll running.
IsIdle(c) ==
    /\ c.proc = NoProc
    /\ c.hwnd = NoProc
    /\ c.sndcpy_proc = NoProc
    /\ ~c.poll
    /\ ~c.stderr_timer

\* SessionState = Streaming: the scrcpy process and its window are held.
IsStreaming(c) == c.proc # NoProc /\ c.hwnd # NoProc

\* signal.emit(): the signal, and whether the controller was Idle as it was emitted.
Emit(w, sig) ==
    [ w EXCEPT !.emitted = Append(@, [sig |-> sig, idle |-> IsIdle(w.self)]),
               !.audio_events = IF sig = "audio_unavailable" THEN @ + 1 ELSE @ ]

\* The poll() test the wrong way round.
poll_inverted(w) ==
    /\ w.self.proc # NoProc
    /\ w.mirror[w.self.proc].st # "running"

\* is_running
is_running(w) ==
    /\ w.self.proc # NoProc
    /\ w.mirror[w.self.proc].st = "running"

\* A report that comes with an error signal.
notify_with_error(w) ==
    IF w.self.audio_warning_emitted
    THEN w
    ELSE Emit(Emit([w EXCEPT !.self.audio_warning_emitted = TRUE,
                             !.self.audio_requested = FALSE],
                   "audio_unavailable"),
              "error")

\* _notify_audio_unavailable
notify_audio_unavailable(w) ==
    IF w.self.audio_warning_emitted
    THEN w
    ELSE Emit([w EXCEPT !.self.audio_warning_emitted = TRUE,
                        !.self.audio_requested = FALSE],
              "audio_unavailable")

\* _handle_scrcpy_log_line
handle_scrcpy_log_line(w, line) ==
    IF /\ w.self.audio_requested
       /\ ~w.self.audio_warning_emitted
       /\ AudioUnsupportedLine(line)
    THEN notify_audio_unavailable(w)
    ELSE w

\* The loop of _drain_process_output: get_nowait() until Empty, each line
\* handled; lines[i] is the text of the i-th line left.
RECURSIVE drain_queue(_, _)
drain_queue(w, lines) ==
    IF w.self.stderr_queue = <<>>
    THEN w
    ELSE drain_queue(
             handle_scrcpy_log_line(
                 [w EXCEPT !.self.stderr_queue = Tail(@)], Head(lines)),
             Tail(lines))

\* A clearing that clears nothing.
queue_kept(w) == w

\* _clear_output_queue
clear_output_queue(w) == [w EXCEPT !.self.stderr_queue = <<>>]

\* Where the sndcpy reader thread of s is once it is back at readline():
\* blocked in it, or ended, as readline() raises on a closed stream and
\* returns "" on the stream of an exited process.
ReaderAtReadline(w, s) ==
    IF w.sidecar[s].st = "running" /\ ~w.sidecar[s].closed
    THEN [pc |-> "read", line |-> <<>>]
    ELSE [pc |-> "done", line |-> <<>>]

\* Whether the close() calls of the finally clause go through or raise; on
\* the streams of an exited process it makes no difference.
CloseOutcomes(w, p) == IF w.sidecar[p].st = "running" THEN BOOLEAN ELSE {TRUE}

\* The finally clause of _stop_sndcpy for process p; closing a stream may raise,
\* which is swallowed and leaves the stream as it was.
stop_sndcpy_finally(w, p, close_ok) ==
    LET w1 == [ w EXCEPT !.sidecar[p].closed =
                             IF close_ok /\ w.sidecar[p].st = "running"
                             THEN TRUE ELSE @,
                         !.self.sndcpy_prompt_ack = FALSE,
                         !.self.audio_requested = FALSE ]
    IN  IF w1.sndcpy_reader[p].pc = "read"
        THEN [w1 EXCEPT !.sndcpy_reader[p] = ReaderAtReadline(w1, p)]
        ELSE w1

\* _stop_sndcpy when there is no sidecar process.
stop_sndcpy_none(w) ==
    [ w EXCEPT !.self.sndcpy_proc = NoProc,
               !.self.sndcpy_prompt_ack = FALSE,
               !.self.audio_requested = FALSE ]

\* Where the scrcpy reader thread of m is once it is back at readline(): it
\* has the next line, or it ends at the end of the stream of an exited process.
StderrAtReadline(w, m) ==
    IF w.mirror[m].st = "running"
    THEN [w EXCEPT !.stderr_thread[m] = "read"]
    ELSE IF w.mirror[m].pending > 0
         THEN [w EXCEPT !.stderr_thread[m] = "put", !.mirror[m].pending = @ - 1]
         ELSE [w EXCEPT !.stderr_thread[m] = "done"]

\* A scrcpy process exits with n lines unread in its stderr pipe; its window
\* goes with it.
mirror_exit(w, m, code, n) ==
    LET w1 == [ w EXCEPT !.mirror[m] = [st |-> "exited", code |-> code,
                                        embedded |-> FALSE, pending |-> n,
                                        terminated |-> @.terminated] ]
    IN  IF w1.stderr_thread[m] = "read" THEN StderrAtReadline(w1, m) ELSE w1

\* A sndcpy process exits: its monitor thread's wait() returns the code, and
\* the thread ends there when the code is 0 (line 590).
sidecar_exit(w, s, code) ==
    LET w1 == [ w EXCEPT !.sidecar[s].st = "exited",
                         !.sidecar[s].closed = FALSE,
                         !.sndcpy_monitor[s] =
                             IF @ = "wait"
                             THEN (IF code # 0 THEN "check" ELSE "done")
                             ELSE @ ]
    IN  IF w1.sndcpy_reader[s].pc = "read"
        THEN [w1 EXCEPT !.sndcpy_reader[s] = ReaderAtReadline(w1, s)]
        ELSE w1

(* ------------------------------------------------------------ process slots *)
\* A slot is free again once its process has exited, its threads have ended
\* and the controller holds nothing that names it.
MirrorGone(w, m) ==
    /\ w.mirror[m].st = "exited"
    /\ w.stderr_thread[m] = "done"
    /\ w.self.proc # m
    /\ w.self.hwnd # m
    /\ \A i \in 1..Len(w.self.stderr_queue) : w.self.stderr_queue[i] # m

SidecarGone(w, f, s) ==
    /\ w.sidecar[s].st = "exited"
    /\ w.sndcpy_reader[s].pc = "done"
    /\ w.sndcpy_monitor[s] = "done"
    /\ w.self.sndcpy_proc # s
    /\ f.p # s

\* What can no longer be observed is forgotten: the slots of processes that
\* are gone, the exit code of a process the controller does not hold, the
\* written mark of a process that is not the controller's sidecar.
Reclaim(w, f) ==
    [ w EXCEPT
        !.mirror =
            [m \in Mirrors |->
                IF MirrorGone(w, m) THEN NoMirror
                ELSE IF w.self.proc # m
                     THEN [@[m] EXCEPT !.code = 0, !.terminated = FALSE]
                ELSE @[m]],
        !.stderr_thread =
            [m \in Mirrors |-> IF MirrorGone(w, m) THEN "off" ELSE @[m]],
        !.sidecar =
            [s \in Sidecars |->
                IF SidecarGone(w, f, s) THEN NoSidecar
                ELSE IF w.self.sndcpy_proc # s THEN [@[s] EXCEPT !.written = FALSE]
                ELSE @[s]],
        !.sndcpy_reader =
            [s \in Sidecars |-> IF SidecarGone(w, f, s) THEN NoThread ELSE @[s]],
        !.sndcpy_monitor =
            [s \in Sidecars |-> IF SidecarGone(w, f, s) THEN "off" ELSE @[s]] ]

FreeMirrors(w) == {m \in Mirrors : Reclaim(w, NoFrame).mirror[m].st = "free"}
FreeSidecars(w) == {s \in Sidecars : Reclaim(w, NoFrame).sidecar[s].st = "free"}
\* The slot a new process gets.
Lowest(S) == CHOOSE x \in S : \A y \in S : x <= y

Commit(w, f) ==
    LET r == Reclaim(w, f) IN
    /\ self' = r.self
    /\ mirror' = r.mirror
    /\ stderr_thread' = r.stderr_thread
    /\ sidecar' = r.sidecar
    /\ sndcpy_reader' = r.sndcpy_reader
    /\ sndcpy_monitor' = r.sndcpy_monitor
    /\ emitted' = r.emitted
    /\ audio_events' = r.audio_events

\* The handler returns (or raises): the event loop is free again.
Finish(w, op) ==
    /\ Commit(w, NoFrame)
    /\ view' = view
    /\ pc' = "idle"
    /\ frame' = NoFrame
    /\ lastOp' = op

\* The handler blocks in a wait: the background threads run.
Yield(w, at, f) ==
    /\ Commit(w, f)
    /\ view' = view
    /\ pc' = at
    /\ frame' = f
    /\ lastOp' = Op(f, "running", at)

(* ------------------------------------------------------------------ stop *)
\* stop(), its last line: stopped.emit(); and, when _drain_process_output
\* called it for an unexpected exit, the error.emit() that follows.
StopEnd(w, f) ==
    LET w1 == Emit(w, "stopped") IN
    IF f.op = "drain"
    THEN IF f.unexpected
         THEN Finish(Emit(w1, "error"), Op(f, "returned", "unexpected_exit"))
         ELSE Finish(w1, Op(f, "returned", "exit"))
    ELSE Finish(w1, Op(f, "returned", "stopped"))

(* ----------------------------------------------------------------- start *)
\* start(), lines 355-357: the scrcpy spawn failed with the sidecar started.
\* _stop_sndcpy() on the sidecar, then return.
StartRollback(w, f) ==
    LET p == w.self.sndcpy_proc
        w1 == [w EXCEPT !.self.sndcpy_proc = NoProc]
        g == [f EXCEPT !.cont = "start_fail", !.p = p]
    IN  IF p = NoProc
        THEN Finish(stop_sndcpy_none(w), Op(f, "returned", "spawn_failed"))
        ELSE IF w.sidecar[p].st = "running"
             THEN \/ Yield(w1, "sndcpy_wait", g)
                  \/ \* terminate() raises: logged
                     \E close_ok \in CloseOutcomes(w1, p) :
                        Finish(stop_sndcpy_finally(w1, p, close_ok),
                               Op(f, "returned", "spawn_failed"))
             ELSE \E close_ok \in CloseOutcomes(w1, p) :
                     Finish(stop_sndcpy_finally(w1, p, close_ok),
                            Op(f, "returned", "spawn_failed"))

\* start(), lines 333-364: the scrcpy process is spawned, its reader thread
\* and both timers are started.
StartMirror(w, f0, audio_enabled) ==
    LET w1 == [w EXCEPT !.self.audio_requested = audio_enabled,
                        !.self.stderr_queue = <<>>]
        f == [f0 EXCEPT !.args = scrcpy_args(w.self.serial, f0.fps, f0.bitrate,
                                              f0.stay_awake)]
        \* self.proc is assigned the new process: the old handle is dropped
        free == FreeMirrors([w1 EXCEPT !.self.proc = NoProc])
    IN  \/ /\ free # {}
           /\ LET m == Lowest(free) IN
              Finish([w1 EXCEPT !.mirror[m] = [NoMirror EXCEPT !.st = "running"],
                                !.stderr_thread[m] = "read",
                                !.self.proc = m,
                                !.self.stderr_timer = TRUE,
                                !.self.poll = TRUE],
                     Op(f, "returned", "spawned"))
        \/ LET w2 == Emit(w1, "error") IN
           IF audio_enabled
           THEN StartRollback(w2, f)
           ELSE Finish(w2, Op(f, "returned", "spawn_failed"))

\* _start_sndcpy, lines 491-544: the sidecar is spawned and its two threads started.
StartSndcpySpawn(w, f) ==
    LET w1 == [w EXCEPT !.self.sndcpy_prompt_ack = FALSE] IN
    \/ /\ FreeSidecars(w1) # {}
       /\ LET s == Lowest(FreeSidecars(w1)) IN
          StartMirror([w1 EXCEPT !.sidecar[s] = [NoSidecar EXCEPT !.st = "running"],
                                 !.sndcpy_reader[s] = [NoThread EXCEPT !.pc = "read"],
                                 !.sndcpy_monitor[s] = "wait",
                                 !.self.sndcpy_proc = s],
                      f, TRUE)
    \/ \* FileNotFoundError, or another exception
       StartMirror(notify_audio_unavailable(w1), f, FALSE)

\* What follows a _stop_sndcpy() that has returned.
AfterStopSndcpy(w, f) ==
    CASE f.cont = "stop" -> StopEnd(w, f)
      [] f.cont = "start_audio" -> StartSndcpySpawn(w, f)
      [] f.cont = "start_noaudio" -> StartMirror(w, f, FALSE)
      [] f.cont = "start_fail" -> Finish(w, Op(f, "returned", "spawn_failed"))

\* _stop_sndcpy, lines 599-611: up to its wait for the terminated sidecar.
StopSndcpy(w, f) ==
    LET p == w.self.sndcpy_proc
        w1 == [w EXCEPT !.self.sndcpy_proc = NoProc]
    IN  IF p = NoProc
        THEN AfterStopSndcpy(stop_sndcpy_none(w), f)
        ELSE IF w.sidecar[p].st = "running"
             THEN \/ \* terminate() returns and wait(timeout=2) blocks
                     Yield(w1, "sndcpy_wait", [f EXCEPT !.p = p])
                  \/ \* terminate() raises: logged
                     \E close_ok \in CloseOutcomes(w1, p) :
                           AfterStopSndcpy(
                               stop_sndcpy_finally(w1, p, close_ok), f)
             ELSE \E close_ok \in CloseOutcomes(w1, p) :
                     AfterStopSndcpy(stop_sndcpy_finally(w1, p, close_ok), f)

\* _stop_sndcpy, lines 611-627: the wait has ended.
SndcpyWaitDone ==
    /\ pc = "sndcpy_wait"
    /\ LET p == frame.p
           f == [frame EXCEPT !.p = NoProc]
       IN  IF sidecar[p].st = "exited"
           THEN \E close_ok \in CloseOutcomes(W, p) :
                   AfterStopSndcpy(stop_sndcpy_finally(W, p, close_ok), f)
           ELSE \/ \* TimeoutExpired, and kill() ends the process
                   \E close_ok \in CloseOutcomes(W, p) :
                      AfterStopSndcpy(
                          stop_sndcpy_finally(sidecar_exit(W, p, 1), p, close_ok), f)
                \/ \* TimeoutExpired, and kill() raises: out of the handler
                   \E close_ok \in CloseOutcomes(W, p) :
                         Finish(stop_sndcpy_finally(W, p, close_ok),
                                Op(f, "raised", "kill"))
                \/ \* wait() raises another exception: logged
                   \E close_ok \in CloseOutcomes(W, p) :
                         AfterStopSndcpy(
                             stop_sndcpy_finally(W, p, close_ok), f)

\* A _start_sndcpy whose failure to resolve leaves the audio flag on.
StartSndcpyFlagOn(w, f) ==
    \/ StartMirror(notify_audio_unavailable(w), f, TRUE)
    \/ StopSndcpy(w, [f EXCEPT !.cont = "start_audio"])

\* _start_sndcpy, lines 482-490.
StartSndcpy(w, f) ==
    \/ \* _resolve_sndcpy() finds nothing
       StartMirror(notify_audio_unavailable(w), f, FALSE)
    \/ StopSndcpy(w, [f EXCEPT !.cont = "start_audio"])

\* start(fps, bitrate, stay_awake=stay_awake, audio=audio); dev is what
\* get_first_device() answers if it is asked.
StartOn(dev, stay_awake, fps, bitrate, audio) ==
    /\ pc = "idle"
    /\ LET f == [NoFrame EXCEPT !.op = "start", !.was_idle = IsIdle(self),
                                !.stay_awake = stay_awake]
           w0 == [W EXCEPT !.emitted = <<>>]
           w == [w0 EXCEPT !.self.serial = IF @ = NoSerial THEN dev ELSE @]
       IN  IF is_running(w0)
           THEN Finish(w0, Op(f, "returned", "noop"))
           ELSE \/ \* _resolve_scrcpy() finds nothing
                   Finish(Emit(w, "error"),
                          Op([f EXCEPT !.exe = FALSE], "returned", "no_exe"))
                \/ LET g == [f EXCEPT !.fps = fps, !.bitrate = bitrate] IN
                   IF ~ScrcpyLaunchOptionsValid(fps, bitrate)
                   THEN Finish(Emit(w, "error"), Op(g, "returned", "invalid"))
                   ELSE \E res \in Resolutions :
                        LET w1 == [w EXCEPT !.self.resolution = res,
                                            !.self.audio_warning_emitted = FALSE,
                                            !.audio_events = 0]
                            h == [g EXCEPT !.audio = audio]
                        IN  IF audio
                            THEN StartSndcpy(w1, h)
                            ELSE StopSndcpy(w1, [h EXCEPT !.cont = "start_noaudio"])

\* start() where no device is found and the screen is kept awake.
Start(fps, bitrate, audio) == StartOn(NoSerial, TRUE, fps, bitrate, audio)

\* ScrcpyLaunchOptions(max_fps, bitrate, stay_awake, audio).to_arguments(), on
\* options that __post_init__ accepts.
ToArguments(max_fps, bitrate, stay_awake, audio) ==
    /\ pc = "idle"
    /\ ScrcpyLaunchOptionsValid(max_fps, bitrate)
    /\ Commit(W, NoFrame)
    /\ UNCHANGED <<pc, frame, view>>
    /\ lastOp' = [NoOp EXCEPT !.op = "to_arguments", !.fps = max_fps,
                              !.bitrate = bitrate, !.stay_awake = stay_awake,
                              !.audio = audio,
                              !.args = to_arguments(max_fps, bitrate, stay_awake, audio)]

(* ------------------------------------------------------------------ stop *)
\* stop(), lines 387-391: the queue and both handles are cleared, the sidecar stopped.
StopTail(w, f) ==
    StopSndcpy([clear_output_queue(w) EXCEPT !.self.proc = NoProc,
                                             !.self.hwnd = NoProc],
               [f EXCEPT !.cont = "stop"])

\* A stop() that leaves the discovery poll running.
StopBeginKeepsPoll(w, f) ==
    LET w1 == [w EXCEPT !.self.stderr_timer = FALSE] IN
    IF is_running(w1)
    THEN \/ Yield([w1 EXCEPT !.self.stopping = TRUE], "stop_wait", f)
         \/ StopTail([w1 EXCEPT !.self.stopping = FALSE], f)
    ELSE StopTail([w1 EXCEPT !.self.stopping = FALSE], f)

\* stop(), lines 369-376: both timers stopped, the running process terminated.
StopBegin(w, f) ==
    LET w1 == [w EXCEPT !.self.stderr_timer = FALSE, !.self.poll = FALSE] IN
    IF is_running(w1)
    THEN \/ \* terminate() returns and wait(timeout=2) blocks
            Yield([w1 EXCEPT !.self.stopping = TRUE,
                             !.mirror[w1.self.proc].terminated = TRUE],
                  "stop_wait", f)
         \/ \* terminate() raises: logged, and the finally clause
            StopTail([w1 EXCEPT !.self.stopping = FALSE], f)
    ELSE StopTail([w1 EXCEPT !.self.stopping = FALSE], f)

\* stop()
Stop ==
    /\ pc = "idle"
    /\ StopBegin([W EXCEPT !.emitted = <<>>],
                 [NoFrame EXCEPT !.op = "stop", !.was_idle = IsIdle(self)])

\* stop(), lines 376-383: the wait has ended.
StopWaitDone ==
    /\ pc = "stop_wait"
    /\ LET m == self.proc
           w == [W EXCEPT !.self.stopping = FALSE]
       IN  IF mirror[m].st = "exited"
           THEN StopTail(w, frame)
           ELSE \/ \* TimeoutExpired, and kill() ends the process
                   \E n \in 0..PipeCap : StopTail(mirror_exit(w, m, 1, n), frame)
                \/ \* TimeoutExpired, and kill() raises: out of stop()
                   Finish(w, Op(frame, "raised", "kill"))
                \/ \* wait() raises another exception: logged
                   StopTail(w, frame)

(* ----------------------------------------------------------------- timers *)
\* An exit that is unexpected whatever its code.
unexpected_any_code(w, m) == ~w.self.stopping

\* _drain_process_output, line 459: unexpected, for the exited process m
exit_unexpected(w, m) == ~w.self.stopping /\ w.mirror[m].code # 0

\* _drain_process_output, on a timeout of _stderr_timer
DrainTick ==
    /\ pc = "idle"
    /\ self.stderr_timer
    /\ LET w == [W EXCEPT !.emitted = <<>>] IN
       IF w.self.proc = NoProc
       THEN Finish(clear_output_queue([w EXCEPT !.self.stderr_timer = FALSE]),
                   Op([NoFrame EXCEPT !.op = "drain"], "returned", "no_proc"))
       ELSE \E lines \in [1..Len(self.stderr_queue) -> ScrcpyLines] :
                LET f == [NoFrame EXCEPT !.op = "drain", !.lines = lines,
                                         !.audio_was = self.audio_requested,
                                         !.was_streaming = IsStreaming(self)]
                    w1 == drain_queue(w, lines)
                    m == w1.self.proc
                IN  IF w1.mirror[m].st = "exited"
                    THEN LET unexpected == exit_unexpected(w1, m)
                         IN  StopBegin([w1 EXCEPT !.self.stderr_timer = FALSE],
                                       [f EXCEPT !.unexpected = unexpected])
                    ELSE Finish(w1, Op(f, "returned", "drained"))

\* A _find_window that leaves the discovery poll running.
FindWindowKeepsPolling ==
    /\ pc = "idle"
    /\ self.poll
    /\ LET f == [NoFrame EXCEPT !.op = "find_window"]
           w == [W EXCEPT !.emitted = <<>>]
           found == {m \in Mirrors : mirror[m].st = "running" /\ ~mirror[m].embedded}
       IN  IF found = {}
           THEN Finish(w, Op(f, "returned", "not_found"))
           ELSE \E m \in found :
                   LET w1 == Emit([w EXCEPT !.self.hwnd = m], "started")
                   IN  Finish([w1 EXCEPT !.mirror[m].embedded = TRUE],
                              Op(f, "returned", "found"))

\* _find_window, on a timeout of poll; AndroidView._embed runs on started.
FindWindowTick ==
    /\ pc = "idle"
    /\ self.poll
    /\ LET f == [NoFrame EXCEPT !.op = "find_window"]
           w == [W EXCEPT !.emitted = <<>>]
           found == {m \in Mirrors : mirror[m].st = "running" /\ ~mirror[m].embedded}
       IN  IF found = {}
           THEN Finish(w, Op(f, "returned", "not_found"))
           ELSE \E m \in found :
                   LET w1 == Emit([w EXCEPT !.self.hwnd = m, !.self.poll = FALSE],
                                  "started")
                   IN  Finish([w1 EXCEPT !.mirror[m].embedded = TRUE],
                              Op(f, "returned", "found"))

(* ------------------------------------------------------------- the view *)
\* int(round(n / d)) for n >= 0 and d > 0: Python rounds a half to the even
\* neighbour.
RoundDiv(n, d) ==
    LET q == n \div d
        r == n % d
    IN  IF 2 * r < d THEN q
        ELSE IF 2 * r > d THEN q + 1
        ELSE IF q % 2 = 0 THEN q ELSE q + 1

\* A clamp that clamps nothing.
NoClamp(n) == n

\* max(1, n)
AtLeastOne(n) == IF n < 1 THEN 1 ELSE n

\* A fit with the comparison of the aspects the wrong way round.
geometry_wrong_side(res, rect) ==
    LET width == rect[1]
        height == rect[2]
    IN  IF res # NoResolution /\ res[2] # 0 /\ res[1] # 0 /\ height # 0
        THEN IF width * res[2] < res[1] * height
             THEN LET target_width == AtLeastOne(RoundDiv(height * res[1], res[2]))
                  IN  << (width - target_width) \div 2, 0, target_width, height >>
             ELSE LET target_height == AtLeastOne(RoundDiv(width * res[2], res[1]))
                  IN  << 0, (height - target_height) \div 2, width, target_height >>
        ELSE <<0, 0, width, height>>

\* A fit that always takes the full width.
geometry_full_width(res, rect) ==
    LET target_height == AtLeastOne(RoundDiv(rect[1] * res[2], res[1]))
    IN  << 0, (rect[2] - target_height) \div 2, rect[1], target_height >>

\* The arguments _resize_child gives MoveWindow, (x_off, y_off, width,
\* height), for a device of resolution res in a widget of size rect.  The
\* aspect is res[1] / res[2]; available_aspect > aspect is compared, and the
\* quotients are taken, on the exact fractions.
resize_child_geometry(res, rect) ==
    LET width == rect[1]
        height == rect[2]
    IN  IF res # NoResolution /\ res[2] # 0 /\ res[1] # 0 /\ height # 0
        THEN IF width * res[2] > res[1] * height
             THEN LET target_width == AtLeastOne(RoundDiv(height * res[1], res[2]))
                  IN  << (width - target_width) \div 2, 0, target_width, height >>
             ELSE LET target_height == AtLeastOne(RoundDiv(width * res[2], res[1]))
                  IN  << 0, (height - target_height) \div 2, width, target_height >>
        ELSE <<0, 0, width, height>>

\* The sizes and the resolutions of SpecFit.
FitRects == (0..MaxSide) \X (0..MaxSide)
FitResolutions == (1..MaxPixels) \X (1..MaxPixels)

\* _resize_child, lines 692-721, for a window handle that is held, a device
\* of resolution res and a widget of size rect.
Geometry(res, rect) ==
    /\ pc = "idle"
    /\ Commit(W, NoFrame)
    /\ UNCHANGED <<pc, frame, view>>
    /\ lastOp' = [NoOp EXCEPT !.op = "geometry", !.res = res, !.rect = rect,
                              !.geom = resize_child_geometry(res, rect)]

\* _resize_child: nothing without a window handle; else MoveWindow, on a
\* window that is there or on one that went with its process.
resize_child(w, op) ==
    IF w.self.hwnd = NoProc
    THEN [op EXCEPT !.path = "no_hwnd"]
    ELSE [op EXCEPT !.path = IF w.mirror[w.self.hwnd].st = "running"
                              THEN "moved" ELSE "dead_window",
                    !.geom = resize_child_geometry(w.self.resolution, view'.rect)]

\* _resize_child, on a timeout of r_timer
FitTick ==
    /\ pc = "idle"
    /\ view.r_timer
    /\ Commit(W, NoFrame)
    /\ UNCHANGED <<pc, frame, view>>
    /\ lastOp' = resize_child(W, [NoOp EXCEPT !.op = "fit", !.result = "returned"])

\* resizeEvent: the widget has a new size, and _resize_child
ResizeEvent(rect) ==
    /\ pc = "idle"
    /\ rect # view.rect
    /\ Commit(W, NoFrame)
    /\ UNCHANGED <<pc, frame>>
    /\ view' = [view EXCEPT !.rect = rect]
    /\ lastOp' = resize_child(W, [NoOp EXCEPT !.op = "resize", !.result = "returned"])

(* ------------------------------------------------ processes and threads *)
Bg == [NoOp EXCEPT !.op = "bg", !.result = "step"]

\* A step off the event loop.
BgStep(w, op) ==
    /\ Commit([w EXCEPT !.emitted = IF pc = "idle" THEN <<>> ELSE @], frame)
    /\ UNCHANGED <<pc, frame, view>>
    /\ lastOp' = op

\* scrcpy exits, with n lines unread in its stderr pipe.
MirrorExits(m, code, n) ==
    /\ mirror[m].st = "running"
    /\ BgStep(mirror_exit(W, m, code, n), Bg)

\* _reader: stream.readline() returns a line of the running process.
StderrRead(m) ==
    /\ stderr_thread[m] = "read"
    /\ BgStep([W EXCEPT !.stderr_thread[m] = "put"], Bg)

\* _reader: self._stderr_queue.put(line), and back to readline()
StderrPut(m) ==
    /\ stderr_thread[m] = "put"
    /\ Len(self.stderr_queue) < MaxQueue
    /\ BgStep(StderrAtReadline([W EXCEPT !.self.stderr_queue = Append(@, m)], m),
              Bg)

\* sndcpy exits.
SidecarExits(s, code) ==
    /\ sidecar[s].st = "running"
    /\ BgStep(sidecar_exit(W, s, code), Bg)

\* _read_sndcpy_output, lines 551-570: a line of the running process is read
\* and tested; on to _send_sndcpy_enter, or back to readline().
SndcpyRead(s) ==
    /\ sndcpy_reader[s].pc = "read"
    /\ \E line \in SndcpyLines :
          BgStep([W EXCEPT !.sndcpy_reader[s] =
                               IF AcknowledgesPrompt(line)
                               THEN [pc |-> "enter", line |-> line]
                               ELSE @],
                 [Bg EXCEPT !.op = "sndcpy_line", !.line = line])

\* _send_sndcpy_enter, lines 573-574
SndcpyEnter(s) ==
    /\ sndcpy_reader[s].pc = "enter"
    /\ IF self.sndcpy_prompt_ack
       THEN BgStep([W EXCEPT !.sndcpy_reader[s] = ReaderAtReadline(W, s)],
                   [Bg EXCEPT !.op = "sndcpy_skip", !.sid = s])
       ELSE BgStep([W EXCEPT !.sndcpy_reader[s].pc = "write"], Bg)

\* _send_sndcpy_enter, lines 575-580: the newline is written to the stdin of
\* the process self._sndcpy_proc names now; the write raises on a closed
\* stream or an exited process.
SndcpyWrite(s) ==
    /\ sndcpy_reader[s].pc = "write"
    /\ LET q == self.sndcpy_proc IN
       IF q # NoProc /\ sidecar[q].st = "running" /\ ~sidecar[q].closed
       THEN BgStep([W EXCEPT !.sidecar[q].written = TRUE,
                             !.sndcpy_reader[s].pc = "ack"],
                   [Bg EXCEPT !.op = "sndcpy_write", !.sid = s, !.to = q,
                              !.line = sndcpy_reader[s].line,
                              !.again = sidecar[q].written])
       ELSE BgStep([W EXCEPT !.sndcpy_reader[s] = ReaderAtReadline(W, s)], Bg)

\* _send_sndcpy_enter, line 581
SndcpyAck(s) ==
    /\ sndcpy_reader[s].pc = "ack"
    /\ BgStep([W EXCEPT !.self.sndcpy_prompt_ack = TRUE,
                        !.sndcpy_reader[s] = ReaderAtReadline(W, s)],
              [Bg EXCEPT !.op = "sndcpy_ack", !.sid = s])

\* _monitor_sndcpy, lines 590-594, and line 476, after a wait() that
\* returned a code other than 0.
MonitorCheck(s) ==
    /\ sndcpy_monitor[s] = "check"
    /\ BgStep([W EXCEPT !.sndcpy_monitor[s] =
                            IF /\ self.audio_requested
                               /\ ~self.stopping
                               /\ ~self.audio_warning_emitted
                            THEN "notify"
                            ELSE "done"],
              Bg)

\* _notify_audio_unavailable, lines 478-480, on the monitor thread
MonitorNotify(s) ==
    /\ sndcpy_monitor[s] = "notify"
    /\ BgStep([W EXCEPT !.self.audio_warning_emitted = TRUE,
                        !.self.audio_requested = FALSE,
                        !.audio_events = @ + 1,
                        !.sndcpy_monitor[s] = "done"],
              [Bg EXCEPT !.op = "monitor_notify", !.sid = s])

(* ------------------------------------------------------------------ next *)
\* The controller with one scrcpy and one sndcpy process at a time; sndcpy
\* prints nothing here, its output is SpecAudio's.
Next ==
    \/ \E o \in OptionCases, audio \in BOOLEAN : Start(o[1], o[2], audio)
    \/ Stop
    \/ StopWaitDone
    \/ SndcpyWaitDone
    \/ DrainTick
    \/ FindWindowTick
    \/ \E m \in Mirrors, code \in ExitCodes, n \in 0..PipeCap : MirrorExits(m, code, n)
    \/ \E m \in Mirrors : StderrRead(m)
    \/ \E m \in Mirrors : StderrPut(m)
    \/ \E s \in Sidecars, code \in ExitCodes : SidecarExits(s, code)
    \/ \E s \in Sidecars : MonitorCheck(s)
    \/ \E s \in Sidecars : MonitorNotify(s)

Init == InitWith(SpecMirrors, SpecSidecars)

Spec == Init /\ [][Next]_vars

\* The same, with the timers and the waits fair: an active _stderr_timer
\* fires while the event loop is free, and wait(timeout=2) returns.
SpecLive ==
    /\ Spec
    /\ WF_vars(DrainTick)
    /\ WF_vars(StopWaitDone)
    /\ WF_vars(SndcpyWaitDone)

\* The sidecar's output and its reader threads, over two sidecar processes;
\* scrcpy prints nothing, shows no window and does not exit on its own.
NextAudio ==
    \/ \E audio \in BOOLEAN : Start(60, DEFAULT_BITRATE, audio)
    \/ Stop
    \/ StopWaitDone
    \/ SndcpyWaitDone
    \/ \E s \in Sidecars, code \in ExitCodes : SidecarExits(s, code)
    \/ \E s \in Sidecars : SndcpyRead(s)
    \/ \E s \in Sidecars : SndcpyEnter(s)
    \/ \E s \in Sidecars : SndcpyWrite(s)
    \/ \E s \in Sidecars : SndcpyAck(s)

InitAudio == InitWith(AudioMirrors, AudioSidecars)

SpecAudio == InitAudio /\ [][NextAudio]_vars

\* The window and the view, with no audio: scrcpy prints nothing.
NextView ==
    \/ Start(60, DEFAULT_BITRATE, FALSE)
    \/ Stop
    \/ StopWaitDone
    \/ DrainTick
    \/ FindWindowTick
    \/ \E m \in Mirrors, code \in ExitCodes : MirrorExits(m, code, 0)
    \/ FitTick
    \/ \E rect \in Viewports : ResizeEvent(rect)

InitView == InitWith(ViewMirrors, ViewSidecars)

SpecView == InitView /\ [][NextView]_vars

\* Restarts, with no audio: a second scrcpy process may be spawned while the
\* window or the threads of the first are still there.
NextRestart ==
    \/ Start(60, DEFAULT_BITRATE, FALSE)
    \/ Stop
    \/ StopWaitDone
    \/ DrainTick
    \/ FindWindowTick
    \/ \E m \in Mirrors, code \in ExitCodes : MirrorExits(m, code, 0)

InitRestart == InitWith(RestartMirrors, RestartSidecars)

SpecRestart == InitRestart /\ [][NextRestart]_vars

\* Restarts with the output of scrcpy, and no audio: the reader thread of an
\* earlier process may still run when the next process is spawned.
NextLines ==
    \/ Start(60, DEFAULT_BITRATE, FALSE)
    \/ Stop
    \/ StopWaitDone
    \/ DrainTick
    \/ \E m \in Mirrors, code \in ExitCodes, n \in 0..PipeCap : MirrorExits(m, code, n)
    \/ \E m \in Mirrors : StderrRead(m)
    \/ \E m \in Mirrors : StderrPut(m)

InitLines == InitWith(LinesMirrors, LinesSidecars)

SpecLines == InitLines /\ [][NextLines]_vars

\* The fit, on every size and resolution within the bounds.
NextFit == \E res \in FitResolutions, rect \in FitRects : Geometry(res, rect)

InitFit == InitWith(FitMirrors, FitSidecars)

SpecFit == InitFit /\ [][NextFit]_vars

\* The command line: the options, and start() with and without a device.
NextLaunch ==
    \/ \E o \in LaunchCases : ToArguments(o[1], o[2], o[3], o[4])
    \/ \E dev \in Devices \cup {NoSerial}, o \in LaunchCases :
          StartOn(dev, o[3], o[1], o[2], FALSE)
    \/ Stop
    \/ StopWaitDone

InitLaunch == InitWith(LaunchMirrors, LaunchSidecars)

SpecLaunch == InitLaunch /\ [][NextLaunch]_vars

(* ---------------------------------------------------------------- claims *)
\* How often the handler running or just returned has emitted sig.
Emitted(sig) == Cardinality({i \in 1..Len(emitted) : emitted[i].sig = sig})

\* A call of stop() has ended: one made from outside, or the one
\* _drain_process_output makes for an exited process.
StopCallEnded ==
    /\ lastOp.result # "running"
    /\ \/ lastOp.op = "stop"
       \/ lastOp.op = "drain" /\ lastOp.path \notin {"no_proc", "drained"}

\* No process is spawned, none exits and no thread moves: every slot is as it
\* was, or was that of an exited process and has been given up.
ProcessesUnchanged ==
    /\ \A m \in Mirrors :
          \/ mirror'[m] = mirror[m] /\ stderr_thread'[m] = stderr_thread[m]
          \/ mirror[m].st = "exited" /\ mirror'[m].st = "free"
    /\ \A s \in Sidecars :
          \/ /\ sidecar'[s] = sidecar[s]
             /\ sndcpy_reader'[s] = sndcpy_reader[s]
             /\ sndcpy_monitor'[s] = sndcpy_monitor[s]
          \/ sidecar[s].st = "exited" /\ sidecar'[s].st = "free"

\* C1: a call of stop() never raises; when it has ended both handles are
\* cleared, no sidecar is held and stopped has been emitted, whatever the
\* teardown operations did.
C1_StopAlwaysCompletes ==
    StopCallEnded =>
        /\ lastOp.result = "returned"
        /\ self.proc = NoProc
        /\ self.hwnd = NoProc
        /\ self.sndcpy_proc = NoProc
        /\ Emitted("stopped") = 1

\* C2 as stated: a call of stop() that returns leaves both handles cleared, no
\* sidecar process running, both sidecar flags reset, and has emitted stopped
\* exactly once.
C2_StopLeavesNoSidecarProcess ==
    StopCallEnded /\ lastOp.result = "returned" =>
        /\ self.proc = NoProc
        /\ self.hwnd = NoProc
        /\ \A s \in Sidecars : sidecar[s].st # "running"
        /\ ~self.audio_requested
        /\ ~self.sndcpy_prompt_ack
        /\ Emitted("stopped") = 1

C4_UnexpectedExitTeardown ==
    /\ lastOp.op = "drain"
    /\ lastOp.unexpected
    /\ lastOp.was_streaming
    /\ lastOp.result # "running"
    =>
        /\ lastOp.result = "returned"
        /\ IsIdle(self)
        /\ ~self.audio_requested
        /\ emitted = << [sig |-> "stopped", idle |-> TRUE],
                        [sig |-> "error", idle |-> TRUE] >>

\* C5: start() with the scrcpy process running returns at once: nothing is
\* spawned, nothing emitted, no field of the controller changed.
C5_StartWhileRunningIsNoOp ==
    [][ /\ pc = "idle"
        /\ lastOp'.op = "start"
        /\ self.proc # NoProc
        /\ mirror[self.proc].st = "running"
        =>  /\ pc' = "idle"
            /\ lastOp'.result = "returned"
            /\ self' = self
            /\ emitted' = <<>>
            /\ audio_events' = audio_events
            /\ ProcessesUnchanged ]_vars

\* start() has returned at once on a streaming session with audio.
C5_Witness ==
    /\ lastOp.op = "start"
    /\ lastOp.path = "noop"
    /\ self.proc # NoProc
    /\ mirror[self.proc].st = "running"
    /\ self.hwnd = self.proc
    /\ self.sndcpy_proc # NoProc

\* The bitrates that are blank.
BlankBitrate(b) == \A i \in 1..Len(b) : b[i] \in {" ", "\t"}

\* C6: start() on an Idle controller with no scrcpy executable to be found,
\* or with fps <= 0 or a blank bitrate, emits one error and nothing else,
\* spawns nothing, starts no timer and leaves the controller as it was, Idle.
C6_InvalidStartFromIdle ==
    [][ /\ pc = "idle"
        /\ lastOp'.op = "start"
        /\ IsIdle(self)
        /\ \/ ~lastOp'.exe
           \/ lastOp'.fps <= 0
           \/ BlankBitrate(lastOp'.bitrate)
        =>  /\ pc' = "idle"
            /\ lastOp'.result = "returned"
            /\ emitted' = <<[sig |-> "error", idle |-> TRUE]>>
            /\ [self' EXCEPT !.serial = self.serial] = self
            /\ IsIdle(self')
            /\ ProcessesUnchanged ]_vars

\* start() has returned on a blank bitrate, called on an Idle controller.
C6_Witness ==
    /\ lastOp.op = "start"
    /\ lastOp.was_idle
    /\ lastOp.fps > 0
    /\ lastOp.bitrate # <<>>
    /\ BlankBitrate(lastOp.bitrate)
    /\ Emitted("error") = 1
    /\ IsIdle(self)

\* The end of a start() whose spawn of scrcpy failed.
SpawnFailed ==
    /\ lastOp.op = "start"
    /\ lastOp.path = "spawn_failed"
    /\ lastOp.result = "returned"

\* C7 as stated: a start() whose spawn of scrcpy fails emits one error and no
\* started, leaves no sidecar running and no timer started, and leaves the
\* controller Idle.
C7_SpawnFailureLeavesIdle ==
    SpawnFailed =>
        /\ Emitted("error") = 1
        /\ Emitted("started") = 0
        /\ \A s \in Sidecars : sidecar[s].st # "running"
        /\ IsIdle(self)

\* The lines of the stop family that sndcpy can print.
StopFamilyLines == {LineStop, LineQuit}

\* C8: a line of the stop family never has "\n" written to the stdin of a
\* sidecar: no reader thread is in _send_sndcpy_enter for such a line, and no
\* write was made for one.
C8_StopPromptNeverWritten ==
    /\ \A s \in Sidecars :
          sndcpy_reader[s].pc \in {"enter", "write", "ack"}
              => sndcpy_reader[s].line \notin StopFamilyLines
    /\ lastOp.op = "sndcpy_write" => lastOp.line \notin StopFamilyLines

\* A reader thread has read "Press Enter to stop recording" from a running
\* sidecar that has been written to before, and is back at readline().
C8_Witness ==
    /\ lastOp.op = "sndcpy_line"
    /\ lastOp.line = LineStop
    /\ \E s \in Sidecars :
          /\ sidecar[s].st = "running"
          /\ sidecar[s].written
          /\ sndcpy_reader[s].pc = "read"
    /\ \A s \in Sidecars : sndcpy_reader[s].pc \notin {"enter", "write", "ack"}

\* C9: the writes made for continuation prompts never give a sidecar a
\* second "\n" on its stdin.
C9_OneNewlinePerSession ==
    lastOp.op = "sndcpy_write" => ~lastOp.again

\* C10: a drain tick that begins with audio requested and only drains emits
\* audio_unavailable once if a line it drains is an audio-unsupported one,
\* and not at all otherwise.
C10_OneAudioUnavailable ==
    /\ lastOp.op = "drain"
    /\ lastOp.path = "drained"
    /\ lastOp.audio_was
    =>  Emitted("audio_unavailable") =
            IF \E i \in 1..Len(lastOp.lines) : AudioUnsupportedLine(lastOp.lines[i])
            THEN 1
            ELSE 0

\* The handler running or just returned has reported audio_unavailable.
AudioReported(e) == \E i \in 1..Len(e) : e[i].sig = "audio_unavailable"

\* Neither error nor stopped is among the signals e.
NoErrorNoStopped(e) == \A i \in 1..Len(e) : e[i].sig \notin {"error", "stopped"}

\* C11: reporting audio_unavailable does not end the video session.  The
\* monitor thread's report changes nothing but the two audio flags; a drain
\* tick that reports it for a line of a running scrcpy leaves the process
\* running, both handles and both timers as they were, and emits neither error
\* nor stopped; a start() that reports it for its sidecar goes on to spawn
\* scrcpy, emits no stopped, and emits error only if that spawn fails.
C11_AudioFailureKeepsSession ==
    [][ /\ lastOp'.op = "monitor_notify" =>
              /\ self' = [self EXCEPT !.audio_warning_emitted = TRUE,
                                      !.audio_requested = FALSE]
              /\ \A m \in Mirrors : mirror'[m].st = mirror[m].st
              /\ emitted' \in {emitted, <<>>}
        /\ /\ pc = "idle"
           /\ lastOp'.op = "drain"
           /\ self.proc # NoProc
           /\ mirror[self.proc].st = "running"
           /\ AudioReported(emitted')
           =>  /\ self'.proc = self.proc
               /\ self'.hwnd = self.hwnd
               /\ self'.poll = self.poll
               /\ self'.stderr_timer = self.stderr_timer
               /\ mirror'[self.proc] = mirror[self.proc]
               /\ NoErrorNoStopped(emitted')
        /\ /\ lastOp'.op = "start"
           /\ lastOp'.result = "returned"
           /\ AudioReported(emitted')
           =>  /\ lastOp'.path \in {"spawned", "spawn_failed"}
               /\ Emitted("stopped")' = 0
               /\ lastOp'.path = "spawned" =>
                     /\ NoErrorNoStopped(emitted')
                     /\ self'.proc # NoProc
                     /\ mirror'[self'.proc].st = "running"
                     /\ self'.poll
                     /\ self'.stderr_timer ]_vars

\* A drain tick of a streaming session has reported audio_unavailable.
C11_Witness ==
    /\ lastOp.op = "drain"
    /\ lastOp.path = "drained"
    /\ AudioReported(emitted)
    /\ IsStreaming(self)
    /\ mirror[self.proc].st = "running"

\* C12: when a drain tick finds the scrcpy process exited and applies the
\* exit handling, every line the process wrote is in the queue the tick
\* drains: none is still in the pipe and none is in the reader thread's hand.
C12_NoLineDroppedBeforeExit ==
    [][ /\ pc = "idle"
        /\ lastOp'.op = "drain"
        /\ self.proc # NoProc
        /\ mirror[self.proc].st = "exited"
        =>  /\ mirror[self.proc].pending = 0
            /\ stderr_thread[self.proc] # "put" ]_vars

\* stop() is at work on the process handles, or has been: it is blocked in one
\* of its waits, or it has ended.
StopAtHandles ==
    \/ pc = "stop_wait"
    \/ pc = "sndcpy_wait" /\ frame.cont = "stop"
    \/ StopCallEnded

\* C13 as stated: with stop() at the process handles, the discovery poll, the
\* drain timer and the view's fit timer are all stopped.
C13_StopHaltsAllThreeTimers ==
    StopAtHandles =>
        /\ ~self.poll
        /\ ~self.stderr_timer
        /\ ~view.r_timer

\* C13, amended: with stop() at the process handles, the discovery poll and
\* the drain timer are stopped, and the view's fit timer is running.
C13_StopHaltsBothPolls ==
    StopAtHandles =>
        /\ ~self.poll
        /\ ~self.stderr_timer
        /\ view.r_timer

\* stop() is blocked in its wait for the scrcpy process of a streaming session.
C13_Witness ==
    /\ pc = "stop_wait"
    /\ frame.op = "stop"
    /\ IsStreaming(self)
    /\ mirror[self.proc].st = "running"

\* C14: a step of a background thread (a reader or a monitor) changes no
\* field of the controller; what it hands over, it puts into the queue.
C14_FlagsOwnedByEventLoop ==
    [][ lastOp'.result = "step" =>
            [self' EXCEPT !.stderr_queue = <<>>]
                = [self EXCEPT !.stderr_queue = <<>>] ]_vars

\* _resize_child has called MoveWindow for a device of 1080 x 2400 in a
\* widget of 800 x 800.
FitOf1080x2400In800x800 ==
    /\ lastOp.op \in {"fit", "resize"}
    /\ lastOp.path # "no_hwnd"
    /\ self.resolution = <<1080, 2400>>
    /\ view.rect = <<800, 800>>

\* C15 as stated: for a device of 1080 x 2400 in a widget of 800 x 800 the
\* fit is width-constrained: 800 wide and 1778 high, at x = 0 and
\* y = (800 - 1778) / 2.
C15_FitWidthConstrained ==
    FitOf1080x2400In800x800 => lastOp.geom = <<0, (800 - 1778) \div 2, 800, 1778>>

\* C15, amended: for a device of 1080 x 2400 in a widget of 800 x 800 the fit
\* is height-constrained: 360 wide and 800 high, at x = (800 - 360) / 2 and
\* y = 0.
C15_FitHeightConstrained ==
    FitOf1080x2400In800x800 => lastOp.geom = <<(800 - 360) \div 2, 0, 360, 800>>

\* The fit timer has fired on the window of a running scrcpy, for a device of
\* 1080 x 2400 in a widget of 800 x 800.
C15_Witness ==
    /\ FitOf1080x2400In800x800
    /\ lastOp.op = "fit"
    /\ lastOp.path = "moved"


\* The places in args that hold the flag.
FlagAt(args, flag) == {i \in DOMAIN args : args[i].flag = flag}

\* The place of each option flag in the fixed order.
FlagRank ==
    [ flag \in {"--window-title", "--window-borderless", "--max-fps",
                "--video-bit-rate", "--stay-awake", "--no-audio"} |->
        CASE flag = "--window-title" -> 1
          [] flag = "--window-borderless" -> 2
          [] flag = "--max-fps" -> 3
          [] flag = "--video-bit-rate" -> 4
          [] flag = "--stay-awake" -> 5
          [] flag = "--no-audio" -> 6 ]

\* args is the option list the claim describes for these options.
OptionsInOrder(args, max_fps, bitrate, stay_awake, audio) ==
    /\ \A i \in DOMAIN args : args[i].flag \in DOMAIN FlagRank
    /\ \A i, j \in DOMAIN args :
          i < j => FlagRank[args[i].flag] < FlagRank[args[j].flag]
    /\ Cardinality(FlagAt(args, "--window-title")) = 1
    /\ Cardinality(FlagAt(args, "--window-borderless")) = 1
    /\ Cardinality(FlagAt(args, "--max-fps")) = 1
    /\ \A i \in FlagAt(args, "--max-fps") : args[i].num = max_fps
    /\ Cardinality(FlagAt(args, "--video-bit-rate")) = 1
    /\ \A i \in FlagAt(args, "--video-bit-rate") : args[i].text = bitrate
    /\ Cardinality(FlagAt(args, "--stay-awake")) = (IF stay_awake THEN 1 ELSE 0)
    /\ Cardinality(FlagAt(args, "--no-audio")) = (IF audio THEN 0 ELSE 1)

\* start() built a command line.
StartBuiltArgs ==
    lastOp.op = "start" /\ lastOp.path \in {"spawned", "spawn_failed"}

\* C16: to_arguments() on valid options gives the window title, borderless,
\* one max-fps flag and one bitrate flag with the configured values, the
\* stay-awake flag iff stayAwake and the no-audio flag iff audio is off, in
\* that order and nothing else; the command line of start() is the
\* executable, then "-s" and the serial iff a serial is known, then these
\* arguments for its options with audio off.
C16_ArgumentVector ==
    /\ lastOp.op = "to_arguments" =>
          OptionsInOrder(lastOp.args, lastOp.fps, lastOp.bitrate,
                         lastOp.stay_awake, lastOp.audio)
    /\ StartBuiltArgs =>
          LET args == lastOp.args
              first == IF self.serial # NoSerial THEN 4 ELSE 2
          IN  /\ Len(args) >= first
              /\ args[1].flag = "exe"
              /\ self.serial # NoSerial =>
                    /\ args[2] = Arg("-s", 0, <<>>)
                    /\ args[3] = Arg("", 0, <<self.serial>>)
              /\ OptionsInOrder(SubSeq(args, first, Len(args)), lastOp.fps,
                                lastOp.bitrate, lastOp.stay_awake, FALSE)

C16_Witness ==
    /\ StartBuiltArgs
    /\ lastOp.path = "spawned"
    /\ self.serial # NoSerial
    /\ ~lastOp.stay_awake
    /\ Len(lastOp.args) = 8

\* C17: whenever the controller holds a window handle, the scrcpy process that
\* owns the window is still running, in every reachable state.
C17_HandleNeverOutlivesProcess ==
    self.hwnd # NoProc => mirror[self.hwnd].st = "running"

\* C18: the monitor thread never reports audio as unavailable for a sidecar
\* that _stop_sndcpy() has terminated and is still waiting for: an exit that
\* the teardown of stop() or start() causes is silent.
C18_TeardownExitIsSilent ==
    [][lastOp'.op = "monitor_notify" =>
         ~(pc = "sndcpy_wait" /\ frame.p = lastOp'.sid)]_vars

\* C19: a start() that spawns a scrcpy process leaves no window handle: the
\* handle is absent until _find_window finds the window of the new process.
C19_StartLeavesNoHandle ==
    [][lastOp'.op = "start" /\ lastOp'.path = "spawned" =>
         self'.hwnd = NoProc]_vars

\* The signals of the handler that has just run that are "stopped".
StoppedEmitted(e) == {i \in DOMAIN e : e[i].sig = "stopped"}

\* C20: the controller lets go of a scrcpy process that has exited only in
\* its exit handling, the teardown of stop() that ends with one "stopped":
\* no exit goes unhandled and none is handled twice.
C20_ExitHandledOnce ==
    [][(/\ self.proc # NoProc
        /\ mirror[self.proc].st = "exited"
        /\ self'.proc # self.proc)
       => /\ lastOp'.op \in {"stop", "drain"}
          /\ Cardinality(StoppedEmitted(emitted')) = 1]_vars

\* error is among the signals e.
ErrorEmitted(e) == \E i \in DOMAIN e : e[i].sig = "error"

\* C21: an error for the end of the scrcpy process is emitted only by a
\* drain tick that takes the exit for unexpected, and a drain tick does so
\* only when it finds the process exited with a code other than 0 and not
\* terminated by stop(); a call of stop() emits no error.
C21_ErrorOnlyForUnexpectedExit ==
    [][/\ (lastOp'.op = "drain" /\ ErrorEmitted(emitted')) => lastOp'.unexpected
       /\ (lastOp'.op = "drain" /\ lastOp'.unexpected /\ pc = "idle") =>
            /\ self.proc # NoProc
            /\ mirror[self.proc].st = "exited"
            /\ mirror[self.proc].code # 0
            /\ ~mirror[self.proc].terminated
       /\ lastOp'.op = "stop" => ~ErrorEmitted(emitted')]_vars

\* A drain tick has handled an exit with code 0, with no error.
C21_Witness ==
    /\ lastOp.op = "drain"
    /\ lastOp.path = "exit"
    /\ ~lastOp.unexpected
    /\ ~ErrorEmitted(emitted)

\* This step has spawned a sidecar: its monitor thread has just been started.
SidecarSpawned ==
    \E s \in Sidecars : sndcpy_monitor[s] # "wait" /\ sndcpy_monitor'[s] = "wait"

\* This step ends a start() with audio requested that has returned.
AudioStartReturns ==
    lastOp'.op = "start" /\ lastOp'.audio /\ lastOp'.result = "returned"

\* C22: a start() with audio requested goes on to spawn scrcpy whether the
\* sidecar started or not; when scrcpy is spawned, _audio_requested is TRUE
\* exactly when the call has spawned a sidecar, and with no sidecar the
\* session is up with the flag FALSE.
C22_AudioFlagIsSidecarResult ==
    [][AudioStartReturns =>
         /\ lastOp'.path \in {"spawned", "spawn_failed"}
         /\ lastOp'.args # <<>>
         /\ lastOp'.path = "spawned" =>
               /\ self'.audio_requested = SidecarSpawned
               /\ self'.proc # NoProc
               /\ mirror'[self'.proc].st = "running"
               /\ self'.poll /\ self'.stderr_timer
               /\ ~ErrorEmitted(emitted')]_vars

\* A start() with audio requested has spawned scrcpy after the sidecar
\* failed to start.
C22_Witness ==
    /\ lastOp.op = "start" /\ lastOp.audio /\ lastOp.path = "spawned"
    /\ AudioReported(emitted)
    /\ ~self.audio_requested
    /\ self.sndcpy_proc = NoProc
    /\ self.proc # NoProc

\* C23: when a start() with audio not requested has spawned scrcpy, no
\* sidecar process is running and _audio_requested is FALSE.
C23_NoAudioStartLeavesNoSidecar ==
    [][(lastOp'.op = "start" /\ ~lastOp'.audio /\ lastOp'.path = "spawned") =>
         /\ \A s \in Sidecars : sidecar'[s].st # "running"
         /\ ~self'.audio_requested]_vars

\* C24: when the _start_sndcpy() of a start() with audio requested has
\* returned, no sidecar process of an earlier call is running: a sidecar
\* that ran before the step that ends the start() does not run after it.
C24_StartStopsEarlierSidecar ==
    [][AudioStartReturns =>
         \A s \in Sidecars :
            ~(sidecar[s].st = "running" /\ sidecar'[s].st = "running")]_vars

\* C25: whenever the discovery poll is active, the controller holds a process
\* and no window handle.
C25_PollOnlyWhileStarting ==
    self.poll => self.proc # NoProc /\ self.hwnd = NoProc

\* C26: in every fit with the resolution known, the width and the height of
\* the rectangle the window is moved to are both at least 1.
C26_FitDimensionsAtLeastOne ==
    (/\ lastOp.op \in {"fit", "resize"}
     /\ lastOp.path = "moved"
     /\ self.resolution # NoResolution)
    => lastOp.geom[3] >= 1 /\ lastOp.geom[4] >= 1

\* t is n / d rounded to a nearest integer, for d > 0.
IsRounded(t, n, d) == 2 * t * d - 2 * n \in (0 - d)..d

\* t is n / d rounded to a nearest integer and then raised to 1 if below.
IsRoundedAtLeastOne(t, n, d) ==
    /\ t >= 1
    /\ IsRounded(t, n, d) \/ (t = 1 /\ 2 * n <= d)

\* The offset x puts a length of t in the middle of a length of w.
IsCentred(x, t, w) == (w - t) - 2 * x \in {0, 1}

\* A fit of a widget with both sides at least 1 has been computed.
FitComputed ==
    lastOp.op = "geometry" /\ lastOp.rect[1] >= 1 /\ lastOp.rect[2] >= 1

\* C27 as stated: for a widget W x H and a resolution dw x dh, all at least
\* 1, the fit is height-constrained, with height H and width round(H*dw/dh),
\* exactly when W/H > dw/dh, and width-constrained, with width W and height
\* round(W*dh/dw), otherwise; and the rectangle is centred.
C27_FitByAspect ==
    FitComputed =>
        LET vw == lastOp.rect[1]
            vh == lastOp.rect[2]
            dw == lastOp.res[1]
            dh == lastOp.res[2]
            g == lastOp.geom
        IN  /\ IF vw * dh > dw * vh
               THEN g[4] = vh /\ IsRounded(g[3], vh * dw, dh)
               ELSE g[3] = vw /\ IsRounded(g[4], vw * dh, dw)
            /\ IsCentred(g[1], g[3], vw)
            /\ IsCentred(g[2], g[4], vh)

\* C27: the same, with the rounded dimension raised to 1 when it rounds to 0.
C27_FitByAspectClamped ==
    FitComputed =>
        LET vw == lastOp.rect[1]
            vh == lastOp.rect[2]
            dw == lastOp.res[1]
            dh == lastOp.res[2]
            g == lastOp.geom
        IN  /\ IF vw * dh > dw * vh
               THEN g[4] = vh /\ IsRoundedAtLeastOne(g[3], vh * dw, dh)
               ELSE g[3] = vw /\ IsRoundedAtLeastOne(g[4], vw * dh, dw)
            /\ IsCentred(g[1], g[3], vw)
            /\ IsCentred(g[2], g[4], vh)

\* A height-constrained fit whose width rounds to 0 and is raised to 1.
C27_Witness ==
    /\ FitComputed
    /\ lastOp.rect[1] * lastOp.res[2] > lastOp.res[1] * lastOp.rect[2]
    /\ 2 * lastOp.rect[2] * lastOp.res[1] < lastOp.res[2]
    /\ lastOp.geom[3] = 1

\* C28: at most one audio_unavailable is emitted between one start() and the
\* next, whichever of the event loop and the monitor threads emits it.
C28_OneAudioUnavailablePerSession == audio_events <= 1

\* C29: a reader thread writes the newline only to the stdin of the sidecar
\* it reads from, and sets _sndcpy_prompt_ack only while that sidecar is the
\* controller's: never for a later sidecar.
C29_ReaderAcksOwnSidecar ==
    [][/\ lastOp'.op = "sndcpy_write" => lastOp'.to = lastOp'.sid
       /\ (lastOp'.op = "sndcpy_ack" /\ self.sndcpy_proc # NoProc) =>
             self.sndcpy_proc = lastOp'.sid]_vars

\* C30: every line a drain tick classifies was printed by the scrcpy process
\* of the session the tick runs in, the process self.proc names.
C30_LinesOfThisSessionOnly ==
    [][(lastOp'.op = "drain" /\ pc = "idle" /\ self.proc # NoProc) =>
         \A i \in 1..Len(self.stderr_queue) :
            self.stderr_queue[i] = self.proc]_vars

\* The scrcpy processes that are running.
MirrorsAlive == {m \in Mirrors : mirror[m].st = "running"}

\* C31: at most one scrcpy process that the controller spawned is running.
C31_OneMirrorAlive == Cardinality(MirrorsAlive) <= 1

\* The scrcpy process the controller holds has exited, and not after a
\* terminate() of stop().
ExitedOnItsOwn ==
    /\ self.proc # NoProc
    /\ mirror[self.proc].st = "exited"
    /\ ~mirror[self.proc].terminated

\* The controller is Idle, no handler is under way and no sidecar process is
\* left running.
TornDownToIdle ==
    /\ pc = "idle"
    /\ IsIdle(self)
    /\ \A s \in Sidecars : sidecar[s].st # "running"

\* C32: when the scrcpy process the controller holds has exited on its own,
\* then, with the drain timer firing fairly, the controller comes to Idle
\* with the sidecar stopped, unless a start() is issued first.  (The claim
\* asks for stopped to have been emitted on the way as well.)
C32_ExitLeadsToIdle ==
    ExitedOnItsOwn ~> (TornDownToIdle \/ lastOp.op = "start")

\* C33: started is emitted once at most for each process start() spawned: it
\* is emitted only by a tick of the discovery poll, that tick stops the poll,
\* and nothing but a start() that spawned a process starts the poll again.
\* The tick that emits it has just set hwnd, and proc is set.  When stop()
\* has ended the poll is stopped, so that no started follows it before a
\* start() has spawned a process.
C33_StartedOncePerProcess ==
    [][ /\ Emitted("started")' <= 1
        /\ Emitted("started")' = 1 =>
               /\ lastOp'.op = "find_window"
               /\ self.poll /\ ~self'.poll
               /\ self'.hwnd # NoProc
               /\ mirror[self'.hwnd].st = "running"
               /\ ~mirror[self'.hwnd].embedded
               /\ self'.proc # NoProc
        /\ ~self.poll /\ self'.poll =>
               /\ lastOp'.op = "start"
               /\ lastOp'.path = "spawned"
               /\ self'.proc # NoProc
               /\ mirror'[self'.proc].st = "running"
        /\ StopCallEnded' => ~self'.poll
      ]_vars

\* A tick of the discovery poll found the window and emitted started.
C33_Witness ==
    /\ lastOp.op = "find_window"
    /\ lastOp.path = "found"
    /\ Emitted("started") = 1
    /\ self.hwnd # NoProc

\* C34: for a widget W x H with both sides at least 1 and a resolution with
\* both sides at least 1, the fitted rectangle lies inside the widget: its
\* width is at most W, its height at most H, and neither offset is negative.
C34_FitInsideViewport ==
    FitComputed =>
        LET g == lastOp.geom IN
            /\ g[3] <= lastOp.rect[1]
            /\ g[4] <= lastOp.rect[2]
            /\ g[1] >= 0
            /\ g[2] >= 0
            /\ g[1] + g[3] <= lastOp.rect[1]
            /\ g[2] + g[4] <= lastOp.rect[2]

\* A fit narrower than the widget, placed at a positive horizontal offset.
C34_Witness ==
    /\ FitComputed
    /\ lastOp.geom[3] < lastOp.rect[1]
    /\ lastOp.geom[1] > 0
    /\ lastOp.geom[4] = lastOp.rect[2]

============================================================================
